---- MODULE Spec2Model ----
(***************************************************************************)
(* Account service of src/main.py: register, verify-email, login and me    *)
(* over the users table and the email_verification_tokens table.           *)
(*                                                                         *)
(* Every request is run by a worker p \in Procs.  A step of a worker is    *)
(* one database transaction of the handler (an engine.begin() block)       *)
(* together with the local computation around it; verify_email reads the   *)
(* clock between its two transactions, and that test is a step of its own. *)
(* Requests of different workers interleave between steps, as the          *)
(* threadpool workers of the web server do.  login runs one transaction    *)
(* and me runs none, so each is a single step.                             *)
(*                                                                         *)
(* reply is the output of the latest step: the request it completed, with  *)
(* its inputs and its response, or NoReply when it completed none.         *)
(* consumed and the fields after and dup are history, read by no action.   *)
(* The column users.created_at is written once and never read; the rows    *)
(* of the model leave it out.                                              *)
(***************************************************************************)
EXTENDS Integers, Sequences, FiniteSets, TLC

\* ------------------------------------------------------------------ bounds
MaxProcs == 2       \* concurrent request workers
MaxRegs  == 2       \* Register requests that get past input validation
MaxTicks == 2       \* clock advances

\* ------------------------------------------------------- program constants
TicketTTL   == 86400          \* register: expires = int(time.time()) + 86400
MinPwLen    == 8              \* register: len(password) < 8
DayTTL      == 60 * 60 * 24   \* make_jwt: ttl = 60 * 60 * 24 * (30 if remember else 1)
RememberDays == 30
JWT_ALG     == "HS256"

Procs == 1..MaxProcs

\* ------------------------------------------------------------------ inputs
\* Strings that the code inspects character by character are sequences of
\* one-character strings.
EmailInputs ==
  { <<"a", "@", "b">>,
    <<" ", "A", "@", "B", " ">>,
    <<"c", "@", "d">>,
    <<" ", "a", "b">> }

Passwords == {"short", "password1"}

Whitespace == {" ", "\t", "\n"}

UpperChars == <<"A", "B", "C", "D", "E", "R", "S", "I">>
LowerChars == <<"a", "b", "c", "d", "e", "r", "s", "i">>

\* str.lower() on one character
LowerChar(c) ==
  IF \E i \in 1..Len(UpperChars) : UpperChars[i] = c
  THEN LowerChars[CHOOSE i \in 1..Len(UpperChars) : UpperChars[i] = c]
  ELSE c

\* str.lower()
Lower(s) == [i \in 1..Len(s) |-> LowerChar(s[i])]

RECURSIVE LStrip(_)
LStrip(s) ==
  IF s = <<>> \/ Head(s) \notin Whitespace THEN s ELSE LStrip(Tail(s))

RECURSIVE RStrip(_)
RStrip(s) ==
  IF s = <<>> \/ s[Len(s)] \notin Whitespace THEN s
  ELSE RStrip(SubSeq(s, 1, Len(s) - 1))

\* str.strip()
Strip(s) == RStrip(LStrip(s))

\* email = email.lower().strip()
NormalizeEmail(email) == Strip(Lower(email))

\* "@" in email
Contains(s, c) == \E i \in 1..Len(s) : s[i] = c

\* s.startswith(prefix)
StartsWith(s, prefix) ==
  /\ Len(s) >= Len(prefix)
  /\ SubSeq(s, 1, Len(prefix)) = prefix

\* ---------------------------------------------------------------- responses
\* ok(data) and err(code)
ok(data)  == [ok |-> TRUE, error_code |-> "", data |-> data]
err(code) == [ok |-> FALSE, error_code |-> code, data |-> [none |-> TRUE]]
\* an exception that no handler catches: the request ends without an envelope
Unhandled(e) == [ok |-> FALSE, error_code |-> "", data |-> [exception |-> e]]

IsErr(r, code) == r.ok = FALSE /\ r.error_code = code
IsUnhandled(r) == r.ok = FALSE /\ r.error_code = ""

\* ------------------------------------------------------------ password hash
\* pwd_context.hash / pwd_context.verify: the hash is one-way and verify
\* accepts exactly the password that was hashed.
hash_pw(pw) == [scheme |-> "bcrypt", of |-> pw]
verify_pw(pw, pw_hash) == pw_hash = hash_pw(pw)

VARIABLES
  JWT_SECRET,        \* os.getenv("JWT_SECRET", "")
  APP_BASE_URL,      \* os.getenv("APP_BASE_URL", "")
  SENDGRID_API_KEY,  \* os.getenv("SENDGRID_API_KEY") or ...
  SENDGRID_FROM,     \* os.getenv("SENDGRID_FROM") or ...
  users,             \* rows of table users
  tickets,           \* rows of table email_verification_tokens
  now,               \* int(time.time())
  ticks,             \* number of clock advances so far
  nextUid,           \* number of ids drawn from secrets.token_hex
  nextTok,           \* number of tokens drawn from secrets.token_urlsafe
  outbox,            \* requests.post calls made to the mail provider
  consumed,          \* history: the tickets for which a VerifyEmail returned success
  inbox,             \* the ticket tokens a client has received by mail
  held,              \* the session token a client keeps from a Login response
  proc,              \* proc[p]: the request worker p is in the middle of
  reply              \* the request that the latest step completed, with its response

client == <<inbox, held>>
config == <<JWT_SECRET, APP_BASE_URL, SENDGRID_API_KEY, SENDGRID_FROM>>
vars == <<JWT_SECRET, APP_BASE_URL, SENDGRID_API_KEY, SENDGRID_FROM,
          users, tickets, now, ticks, nextUid, nextTok, outbox, consumed,
          inbox, held, proc, reply>>

Idle == [op |-> "none", pc |-> "idle"]

\* the latest step completed no request
NoReply == [op |-> "none"]

\* the client keeps no session token
NoHeld == [kind |-> "none"]

\* the environments the service is started in: everything set, one variable
\* unset at a time, and nothing set
Configs ==
  { <<"k1", "https://app", "SG.key", "noreply@app">>,
    <<"",   "https://app", "SG.key", "noreply@app">>,
    <<"k1", "",            "SG.key", "noreply@app">>,
    <<"k1", "https://app", "",       "noreply@app">>,
    <<"k1", "https://app", "SG.key", "">>,
    <<"",   "",            "",       "">> }

Init ==
  /\ \E c \in Configs :
       /\ JWT_SECRET = c[1]
       /\ APP_BASE_URL = c[2]
       /\ SENDGRID_API_KEY = c[3]
       /\ SENDGRID_FROM = c[4]
  /\ users = {}
  /\ tickets = {}
  /\ now = 0
  /\ ticks = 0
  /\ nextUid = 0
  /\ nextTok = 0
  /\ outbox = {}
  /\ consumed = {}
  /\ inbox = {}
  /\ held = NoHeld
  /\ proc = [p \in Procs |-> Idle]
  /\ reply = NoReply

IdleWorkers == {p \in Procs : proc[p].pc = "idle"}

\* the clock advances between any two steps
TickDeltas == {1, TicketTTL}

TickBy(deltas) ==
  /\ ticks < MaxTicks
  /\ \E d \in deltas : now' = now + d
  /\ ticks' = ticks + 1
  /\ reply' = NoReply
  /\ UNCHANGED <<config, client, users, tickets, nextUid, nextTok, outbox, consumed,
                 proc>>

Tick == TickBy(TickDeltas)

\* ------------------------------------------------------------------ store
\* .mappings().first(): a row, or None
NoRow == [none |-> TRUE]
First(rows) == IF rows = {} THEN NoRow ELSE CHOOSE r \in rows : TRUE

\* SELECT id, email, password_hash, email_verified FROM users WHERE email = :e
SelectUserByEmail(e) == First({u \in users : u.email = e})

\* SELECT user_id, expires_at FROM email_verification_tokens WHERE token = :t
SelectTicket(t) == First({k \in tickets : k.token = t})

\* mutant: the users table without the UNIQUE constraint on email
InsertUserFailsIdOnly(row) ==
  \E u \in users : u.id = row.id

\* the UNIQUE constraint on users.email and the PRIMARY KEY on users.id
InsertUserFails(row) ==
  \E u \in users : u.email = row.email \/ u.id = row.id

\* ---------------------------------------------------------------- register
StatusCodes == {200, 299, 300}
ConnectionError == -1                      \* requests.post raises
MailOutcomes == StatusCodes \cup {ConnectionError}

\* mutant: 200 <= r.status_code <= 300
Is2xxInclusive(status) == 200 <= status /\ status <= 300

\* 200 <= r.status_code < 300
Is2xx(status) == 200 <= status /\ status < 300

\* if not SENDGRID_API_KEY or not SENDGRID_FROM
MailCredsMissing == SENDGRID_API_KEY = "" \/ SENDGRID_FROM = ""

\* what the request did with the mail provider: nothing, or one POST and its
\* status (ConnectionError when the POST raised)
NotPosted == [posted |-> FALSE, status |-> 0]
Posted(status) == [posted |-> TRUE, status |-> status]

\* the response of a Register request, with the request's inputs and locals
RegisterDone(email, password, uid, token, mail, resp) ==
  [op |-> "register", email |-> email, password |-> password, uid |-> uid,
   token |-> token, mail |-> mail, resp |-> resp]

\* mutant: the password length is not checked
InvalidInputEmailOnly(e, password) == ~Contains(e, "@")

\* "@" not in email or len(password) < 8
InvalidInput(e, password) == ~Contains(e, "@") \/ Len(password) < MinPwLen

\* lines 150-163: normalise, validate, draw an id, INSERT INTO users
RegisterStart(p) ==
  /\ proc[p].pc = "idle"
  /\ \E email \in EmailInputs, password \in Passwords :
       LET e == NormalizeEmail(email) IN
       IF InvalidInput(e, password)
       THEN /\ reply' = RegisterDone(email, password, 0, 0, NotPosted,
                                    err("INVALID_INPUT"))
            /\ UNCHANGED <<users, nextUid, proc>>
       ELSE /\ nextUid < MaxRegs
            /\ nextUid' = nextUid + 1
            /\ LET row == [id |-> nextUid + 1, email |-> e,
                           password_hash |-> hash_pw(password),
                           email_verified |-> 0]
               IN IF InsertUserFails(row)
                  THEN /\ users' = users
                       /\ proc' = proc
                       /\ reply' = RegisterDone(email, password, row.id, 0,
                                               NotPosted, err("EMAIL_EXISTS"))
                  ELSE /\ users' = users \cup {row}
                       /\ proc' = [proc EXCEPT ![p] =
                            [op |-> "register", pc |-> "insert_ticket",
                             email |-> e, password |-> password,
                             uid |-> row.id, token |-> 0]]
                       /\ reply' = NoReply
  /\ UNCHANGED <<config, client, tickets, now, ticks, nextTok, outbox, consumed>>

\* lines 165-172: draw a token, INSERT INTO email_verification_tokens
RegisterInsertTicket(p) ==
  /\ proc[p].pc = "insert_ticket"
  /\ nextTok' = nextTok + 1
  /\ tickets' = tickets \cup
       {[token |-> nextTok + 1, user_id |-> proc[p].uid,
         expires_at |-> now + TicketTTL]}
  /\ proc' = [proc EXCEPT ![p].pc = "send", ![p].token = nextTok + 1]
  /\ reply' = NoReply
  /\ UNCHANGED <<config, client, users, now, ticks, nextUid, outbox, consumed>>

\* lines 174-181 with send_verify_mail (lines 105-123)
RegisterSend(p) ==
  /\ proc[p].pc = "send"
  /\ LET r == proc[p]
         done(mail, resp) ==
           RegisterDone(r.email, r.password, r.uid, r.token, mail, resp)
         post == [to |-> r.email,
                  link |-> [base |-> APP_BASE_URL, token |-> r.token]]
     IN IF APP_BASE_URL = ""
        THEN /\ reply' = done(NotPosted, err("APP_BASE_URL_MISSING"))
             /\ outbox' = outbox
        ELSE IF MailCredsMissing
        THEN /\ reply' = done(NotPosted, err("MAIL_FAILED"))
             /\ outbox' = outbox
        ELSE \E status \in MailOutcomes :
               /\ outbox' = outbox \cup {post}
               /\ reply' = IF status = ConnectionError
                          THEN done(Posted(status), Unhandled("ConnectionError"))
                          ELSE IF Is2xx(status)
                          THEN done(Posted(status),
                                    ok([message |-> "Bitte E-Mail bestaetigen"]))
                          ELSE done(Posted(status), err("MAIL_FAILED"))
  /\ proc' = [proc EXCEPT ![p] = Idle]
  /\ UNCHANGED <<config, client, users, tickets, now, ticks, nextUid, nextTok, consumed>>

\* ------------------------------------------------------------ verify-email
TokenInputs == 0..MaxRegs        \* 0 is a token that is never issued

ConsumedTokens == {c.token : c \in consumed}
VerifiedUsers == {c.user_id : c \in consumed}

VerifyDone(token, row, after, dup, resp) ==
  [op |-> "verify", token |-> token, row |-> row, after |-> after,
   dup |-> dup, resp |-> resp]

\* mutant: the expiry test is missing
ExpiredNever(row, t) == FALSE

\* mutant: row["expires_at"] <= int(time.time())
ExpiredAtDeadline(row, t) == row.expires_at <= t

\* row["expires_at"] < int(time.time())
Expired(row, t) == row.expires_at < t

\* lines 185-191: the SELECT transaction and the test of its result
VerifyRead(p) ==
  /\ proc[p].pc = "idle"
  /\ \E token \in TokenInputs :
       LET row == SelectTicket(token) IN
       IF row = NoRow
       THEN /\ reply' = VerifyDone(token, NoRow, token \in ConsumedTokens,
                                  token \in ConsumedTokens, err("INVALID_TOKEN"))
            /\ proc' = proc
       ELSE /\ proc' = [proc EXCEPT ![p] =
                 [op |-> "verify", pc |-> "check", token |-> token,
                  row |-> [user_id |-> row.user_id, expires_at |-> row.expires_at],
                  after |-> token \in ConsumedTokens]]
            /\ reply' = NoReply
  /\ UNCHANGED <<config, client, users, tickets, now, ticks, nextUid, nextTok, outbox,
                 consumed>>

\* lines 192-193: the expiry test against the clock
VerifyCheck(p) ==
  /\ proc[p].pc = "check"
  /\ LET r == proc[p] IN
     IF Expired(r.row, now)
     THEN /\ reply' = VerifyDone(r.token, r.row, r.after,
                                r.token \in ConsumedTokens, err("TOKEN_EXPIRED"))
          /\ proc' = [proc EXCEPT ![p] = Idle]
     ELSE /\ proc' = [proc EXCEPT ![p] =
               [op |-> "verify", pc |-> "commit", token |-> r.token,
                row |-> r.row, after |-> r.after]]
          /\ reply' = NoReply
  /\ UNCHANGED <<config, client, users, tickets, now, ticks, nextUid, nextTok, outbox,
                 consumed>>

\* mutant: the UPDATE is missing
MarkVerifiedNoop(uid) == users

\* mutant: UPDATE users SET email_verified = 1, without the WHERE
MarkVerifiedAll(uid) == {[u EXCEPT !.email_verified = 1] : u \in users}

\* UPDATE users SET email_verified = 1 WHERE id = :u
MarkVerified(uid) ==
  {IF u.id = uid THEN [u EXCEPT !.email_verified = 1] ELSE u : u \in users}

\* mutant: the ticket is not deleted
DeleteTicketKeeps(t) == tickets

\* DELETE FROM email_verification_tokens WHERE token = :t
DeleteTicket(t) == {k \in tickets : k.token # t}

\* lines 195-199: the UPDATE and the DELETE in one transaction, then ok
VerifyCommit(p) ==
  /\ proc[p].pc = "commit"
  /\ LET r == proc[p] IN
     /\ users' = MarkVerified(r.row.user_id)
     /\ tickets' = DeleteTicket(r.token)
     /\ consumed' = consumed \cup {[token |-> r.token, user_id |-> r.row.user_id]}
     /\ reply' = VerifyDone(r.token, r.row, r.after,
                           r.token \in ConsumedTokens,
                           ok([message |-> "E-Mail bestaetigt"]))
  /\ proc' = [proc EXCEPT ![p] = Idle]
  /\ UNCHANGED <<config, client, now, ticks, nextUid, nextTok, outbox>>

\* ------------------------------------------------------------ session token
\* make_jwt (lines 87-97): the signed token, or RuntimeError when the secret
\* is unset.  A token is its algorithm, the key that signed it and its payload.
NoToken == [kind |-> "none"]
JunkToken == [kind |-> "junk"]

\* mutant: remember is ignored
JwtTtlOneDay(remember) == DayTTL

JwtTtl(remember) == DayTTL * (IF remember THEN RememberDays ELSE 1)

make_jwt(user_id, email, email_verified, remember) ==
  IF JWT_SECRET = ""
  THEN [kind |-> "raise", exception |-> "RuntimeError"]
  ELSE [kind |-> "jwt", alg |-> JWT_ALG, key |-> JWT_SECRET,
        payload |-> [sub |-> user_id, email |-> email,
                     email_verified |-> (email_verified # 0),
                     exp |-> now + JwtTtl(remember)]]

\* jwt.decode's expiry check (PyJWT 2: rejected once exp <= now); a payload
\* without exp never expires
JwtExpired(payload) == "exp" \in DOMAIN payload /\ payload.exp <= now

\* mutant: jwt.decode with verify_exp off
decode_jwt_no_exp(token) ==
  IF token.kind = "jwt" /\ token.alg = JWT_ALG /\ token.key = JWT_SECRET
  THEN token.payload
  ELSE [none |-> TRUE]

\* decode_jwt (lines 99-103): the payload, or None on any failure.  The
\* signature is an HMAC under JWT_SECRET, also when JWT_SECRET is empty.
None == [none |-> TRUE]
decode_jwt(token) ==
  IF /\ token.kind = "jwt"
     /\ token.alg = JWT_ALG
     /\ token.key = JWT_SECRET
     /\ ~JwtExpired(token.payload)
  THEN token.payload
  ELSE None

\* ------------------------------------------------------------------- login
LoginInputs == { <<"A", "@", "b", " ">>, <<"c", "@", "d">> }
LoginPasswords == {"password1", "password2"}

LoginDone(email, password, remember_me, row, resp) ==
  [op |-> "login", email |-> email, password |-> password,
   remember_me |-> remember_me, row |-> row, resp |-> resp]

\* mutant: the email_verified test of line 211 is missing
LoginResultSkipVerified(row, password, remember_me) ==
  IF row = NoRow \/ ~verify_pw(password, row.password_hash)
  THEN err("INVALID_CREDENTIALS")
  ELSE LET token == make_jwt(row.id, row.email, row.email_verified, remember_me)
       IN IF token.kind = "raise"
          THEN Unhandled(token.exception)
          ELSE ok([access_token |-> token, token_type |-> "bearer"])

\* mutant: the email_verified test comes before the password test
LoginResultVerifiedFirst(row, password, remember_me) ==
  IF row = NoRow
  THEN err("INVALID_CREDENTIALS")
  ELSE IF row.email_verified = 0
  THEN err("EMAIL_NOT_VERIFIED")
  ELSE IF ~verify_pw(password, row.password_hash)
  THEN err("INVALID_CREDENTIALS")
  ELSE LET token == make_jwt(row.id, row.email, row.email_verified, remember_me)
       IN IF token.kind = "raise"
          THEN Unhandled(token.exception)
          ELSE ok([access_token |-> token, token_type |-> "bearer"])

\* lines 209-215, on the row the SELECT returned
LoginResult(row, password, remember_me) ==
  IF row = NoRow \/ ~verify_pw(password, row.password_hash)
  THEN err("INVALID_CREDENTIALS")
  ELSE IF row.email_verified = 0
  THEN err("EMAIL_NOT_VERIFIED")
  ELSE LET token == make_jwt(row.id, row.email, row.email_verified, remember_me)
       IN IF token.kind = "raise"
          THEN Unhandled(token.exception)
          ELSE ok([access_token |-> token, token_type |-> "bearer"])

\* lines 201-215: one SELECT transaction, then local computation only
Login ==
  /\ IdleWorkers # {}
  /\ \E email \in LoginInputs, password \in LoginPasswords, remember_me \in BOOLEAN :
       LET row == SelectUserByEmail(NormalizeEmail(email)) IN
       reply' = LoginDone(email, password, remember_me, row,
                          LoginResult(row, password, remember_me))
  /\ UNCHANGED <<config, client, users, tickets, now, ticks, nextUid, nextTok, outbox,
                 consumed, proc>>

\* ---------------------------------------------------------------------- me
\* An Authorization header is the text that precedes the credential and the
\* credential itself (a token, which contains no space); absent is NoHeader.
NoHeader == [present |-> FALSE]
Header(text, cred) == [present |-> TRUE, text |-> text, cred |-> cred]

BearerPrefix == <<"b", "e", "a", "r", "e", "r", " ">>

\* authorization.split(" ", 1)[1]: what follows the first space
RECURSIVE AfterFirstSpace(_)
AfterFirstSpace(s) ==
  IF s = <<>> THEN <<>>
  ELSE IF Head(s) = " " THEN Tail(s) ELSE AfterFirstSpace(Tail(s))

\* get_user (lines 129-133)
get_user(authorization) ==
  IF \/ ~authorization.present
     \/ (authorization.text = <<>> /\ authorization.cred = NoToken)
     \/ ~StartsWith(Lower(authorization.text), BearerPrefix)
  THEN None
  ELSE IF AfterFirstSpace(authorization.text) = <<>>
       THEN decode_jwt(authorization.cred)
       ELSE decode_jwt(JunkToken)

\* require_user (lines 135-138)
require_user(user) == IF user = None THEN err("AUTH_REQUIRED") ELSE user

\* require_verified (lines 140-143); no route depends on it
require_verified(user) ==
  IF "email_verified" \in DOMAIN user /\ ~user.email_verified
  THEN err("EMAIL_NOT_VERIFIED")
  ELSE user

\* me (lines 217-221), on the value its dependency require_user returned
me(user) ==
  IF "ok" \in DOMAIN user /\ ~user.ok
  THEN user
  ELSE IF "email" \notin DOMAIN user \/ "email_verified" \notin DOMAIN user
  THEN Unhandled("KeyError")
  ELSE ok([email |-> user.email, email_verified |-> user.email_verified])

MeDone(authorization, resp) ==
  [op |-> "me", authorization |-> authorization, resp |-> resp]

\* me runs no transaction: the whole request is one step of an idle worker
Me(authorization) ==
  /\ IdleWorkers # {}
  /\ reply' = MeDone(authorization, me(require_user(get_user(authorization))))
  /\ UNCHANGED <<config, client, users, tickets, now, ticks, nextUid, nextTok, outbox,
                 consumed, proc>>

\* the client presents the token that the Login just completed returned
MeIssued ==
  /\ reply.op = "login"
  /\ reply.resp.ok
  /\ Me(Header(<<"B", "e", "a", "r", "e", "r", " ">>,
                  reply.resp.data.access_token))

\* the client presents any header: absent, malformed, or carrying a token
\* signed by anyone
HeaderTexts ==
  { <<"B", "e", "a", "r", "e", "r", " ">>,
    <<"b", "e", "a", "r", "e", "r", " ">>,
    <<"B", "E", "A", "R", "E", "R", " ">>,
    <<"B", "e", "a", "r", "e", "r", " ", " ">>,
    <<"B", "e", "a", "r", "e", "r">>,
    <<"B", "a", "s", "i", "c", " ">>,
    <<>> }

ExpInputs == {1, DayTTL}
SigningKeys == {"", "k1", "k2"}

ForgedTokens ==
  {NoToken, JunkToken} \cup
  { [kind |-> "jwt", alg |-> alg, key |-> key,
     payload |-> [sub |-> 1, email |-> <<"a", "@", "b">>,
                  email_verified |-> v, exp |-> exp]] :
      alg \in {JWT_ALG, "none"}, key \in SigningKeys, v \in BOOLEAN,
      exp \in ExpInputs }

HeaderInputs ==
  {NoHeader} \cup {Header(text, cred) : text \in HeaderTexts, cred \in ForgedTokens}

MeAny == \E authorization \in HeaderInputs : Me(authorization)

Next ==
  \/ Tick
  \/ \E p \in Procs : RegisterStart(p)
  \/ \E p \in Procs : RegisterInsertTicket(p)
  \/ \E p \in Procs : RegisterSend(p)
  \/ \E p \in Procs : VerifyRead(p)
  \/ \E p \in Procs : VerifyCheck(p)
  \/ \E p \in Procs : VerifyCommit(p)
  \/ Login
  \/ MeIssued

\* the account service under concurrent requests
Spec == Init /\ [][Next]_vars

NextMe ==
  \/ Tick
  \/ MeAny

\* the me route alone, under every header
SpecMe == Init /\ [][NextMe]_vars

\* ------------------------------------------------------------ the client
\* the client reads the verification mail of the Register that just succeeded
Receive ==
  /\ reply.op = "register"
  /\ reply.resp.ok
  /\ reply.token \notin inbox
  /\ inbox' = inbox \cup {reply.token}
  /\ UNCHANGED <<config, held, users, tickets, now, ticks, nextUid, nextTok,
                 outbox, consumed, proc, reply>>

\* the client keeps the access token of the Login that just succeeded
Keep ==
  /\ reply.op = "login"
  /\ reply.resp.ok
  /\ held' = [kind |-> "held", token |-> reply.resp.data.access_token,
              issued_at |-> now, remember_me |-> reply.remember_me]
  /\ held' # held
  /\ UNCHANGED <<config, inbox, users, tickets, now, ticks, nextUid, nextTok,
                 outbox, consumed, proc, reply>>

\* the client presents the token it keeps, at any later time
MeHeld ==
  /\ held # NoHeld
  /\ Me(Header(<<"B", "e", "a", "r", "e", "r", " ">>, held.token))

\* a session outlives a day and a month
SessionTickDeltas == {1, DayTTL, DayTTL * RememberDays}

\* a deployment that can send mail, with and without the signing secret
InitSession ==
  /\ Init
  /\ APP_BASE_URL # ""
  /\ ~MailCredsMissing

NextSession ==
  \/ TickBy(SessionTickDeltas)
  \/ RegisterStart(1)
  \/ RegisterInsertTicket(1)
  \/ RegisterSend(1)
  \/ VerifyRead(1)
  \/ VerifyCheck(1)
  \/ VerifyCommit(1)
  \/ Login
  \/ Receive
  \/ Keep
  \/ MeHeld

\* one client going through register, verify, login and me, one request at a
\* time, keeping what the service hands out
SpecSession == InitSession /\ [][NextSession]_vars

\* ======================================================================
\* Properties
\* ======================================================================

IsVerifyOk(r) == r.op = "verify" /\ r.resp.ok

\* C1: of the VerifyEmail requests that carry one ticket token, however their
\* steps interleave, at most one returns success: a request never returns
\* success for a token that an earlier response already consumed.
C1_AtMostOneSuccess ==
  IsVerifyOk(reply) => ~reply.dup

\* ----------------------------------------------------------------------
HasAccessToken(resp) == resp.ok /\ "access_token" \in DOMAIN resp.data

\* the Login that just completed named a registered user and its password
LoginCorrectPassword ==
  /\ reply.op = "login"
  /\ \E u \in users : /\ u.email = NormalizeEmail(reply.email)
                      /\ verify_pw(reply.password, u.password_hash)

LoginUser == CHOOSE u \in users : u.email = NormalizeEmail(reply.email)

\* C2 as stated: with the correct password Login returns EMAIL_NOT_VERIFIED
\* before a successful VerifyEmail for the user and an access token after it.
C2_TokenAfterVerify ==
  LoginCorrectPassword =>
    IF LoginUser.id \in VerifiedUsers
    THEN HasAccessToken(reply.resp)
    ELSE reply.resp = err("EMAIL_NOT_VERIFIED")

\* C2 (amended): a session token is returned only by Login and only when the
\* row it read has email_verified set; with the correct password Login
\* returns EMAIL_NOT_VERIFIED before a successful VerifyEmail for the user,
\* and after it an access token when JWT_SECRET is set and the unhandled
\* RuntimeError of make_jwt, without a token, when JWT_SECRET is unset.
C2_TokenOnlyWhenVerified ==
  /\ reply.op \in {"register", "verify", "me"} => ~HasAccessToken(reply.resp)
  /\ (reply.op = "login" /\ HasAccessToken(reply.resp)) =>
        /\ reply.row # NoRow
        /\ reply.row.email_verified = 1
        /\ reply.resp.data.access_token.payload.sub \in VerifiedUsers
  /\ LoginCorrectPassword =>
        IF LoginUser.id \notin VerifiedUsers
        THEN reply.resp = err("EMAIL_NOT_VERIFIED")
        ELSE IF JWT_SECRET # ""
        THEN HasAccessToken(reply.resp)
        ELSE reply.resp = Unhandled("RuntimeError")

C2_Witness ==
  /\ LoginCorrectPassword
  /\ LoginUser.id \in VerifiedUsers
  /\ HasAccessToken(reply.resp)

\* ----------------------------------------------------------------------
UniqueEmails(rows) ==
  \A u, v \in rows :
     NormalizeEmail(u.email) = NormalizeEmail(v.email) => u = v

\* the step completed a Register request at its INSERT INTO users (or before
\* it), and the store already held a user with the request's normalised email
RegisterOfExistingEmail ==
  /\ reply'.op = "register"
  /\ reply'.token = 0
  /\ \E u \in users : u.email = NormalizeEmail(reply'.email)

\* C3 as stated: every Register whose normalised email already belongs to a
\* user returns EMAIL_EXISTS.
C3_ExistingEmailRejected ==
  [][RegisterOfExistingEmail => reply'.resp = err("EMAIL_EXISTS")]_vars

\* C3 (amended): no two user records ever have the same normalised email,
\* also under interleaved Register requests; a Register whose normalised
\* email already belongs to a user creates no user and no ticket and leaves
\* the existing records unchanged, and it returns EMAIL_EXISTS when its
\* password has at least 8 characters (INVALID_INPUT, checked first, when not).
C3_UniqueEmail ==
  [][ /\ users' # users => UniqueEmails(users')
      /\ RegisterOfExistingEmail =>
           /\ users' = users
           /\ tickets' = tickets
           /\ nextTok' = nextTok
           /\ reply'.resp = IF Len(reply'.password) >= MinPwLen
                            THEN err("EMAIL_EXISTS")
                            ELSE err("INVALID_INPUT") ]_vars

\* a second Register of a registered email, in another spelling, was refused
\* while the first one was still in flight
C3_Witness ==
  /\ reply.op = "register"
  /\ reply.resp = err("EMAIL_EXISTS")
  /\ reply.email # NormalizeEmail(reply.email)
  /\ \E p \in Procs : /\ proc[p].op = "register"
                      /\ proc[p].email = NormalizeEmail(reply.email)

\* ----------------------------------------------------------------------
\* C4: a VerifyEmail request that starts after a VerifyEmail with the same
\* token has returned success returns INVALID_TOKEN.
C4_ConsumedOnce ==
  (reply.op = "verify" /\ reply.after) => reply.resp = err("INVALID_TOKEN")

C4_Witness ==
  /\ reply.op = "verify"
  /\ reply.after
  /\ users # {}

\* ----------------------------------------------------------------------
\* the step is the expiry test of worker p's VerifyEmail request
ExpiryTestOf(p) == proc[p].pc = "check" /\ proc'[p].pc # "check"

\* C5: the expiry test of a VerifyEmail on a ticket it read returns
\* TOKEN_EXPIRED exactly when expires_at < now (expires_at = now passes), and
\* a step that returns TOKEN_EXPIRED changes neither table.
C5_ExpiredExactly ==
  [][ /\ \A p \in Procs :
           ExpiryTestOf(p) =>
             ( (reply'.op = "verify" /\ reply'.resp = err("TOKEN_EXPIRED"))
               <=> proc[p].row.expires_at < now )
      /\ (reply'.op = "verify" /\ reply'.resp = err("TOKEN_EXPIRED")) =>
           /\ tickets' = tickets
           /\ users' = users
           /\ \E p \in Procs : ExpiryTestOf(p) ]_vars

\* a ticket was refused one second after its expiry and is still stored
C5_Witness ==
  /\ reply.op = "verify"
  /\ reply.resp = err("TOKEN_EXPIRED")
  /\ reply.row.expires_at + 1 = now
  /\ \E k \in tickets : k.token = reply.token /\ k.expires_at = reply.row.expires_at

\* ----------------------------------------------------------------------
\* the mail delivery of the Register request that the step completed failed:
\* credentials missing, or a response outside 200..299
MailDeliveryFailed(r) ==
  /\ r.op = "register"
  /\ r.token # 0
  /\ APP_BASE_URL # ""
  /\ \/ SENDGRID_API_KEY = ""
     \/ SENDGRID_FROM = ""
     \/ (r.mail.posted /\ r.mail.status # ConnectionError
                       /\ r.mail.status \notin 200..299)

\* C6: when the mail delivery of a Register fails, Register returns
\* MAIL_FAILED, and the user and the ticket the request created are not
\* rolled back: the step changes neither table, the user is stored, and the
\* ticket is stored unless a VerifyEmail has consumed it.
C6_MailFailedKeepsRecords ==
  [][ MailDeliveryFailed(reply') =>
        /\ reply'.resp = err("MAIL_FAILED")
        /\ users' = users
        /\ tickets' = tickets
        /\ \E u \in users' : u.id = reply'.uid /\ u.email = reply'.email
        /\ \/ \E k \in tickets' : k.token = reply'.token /\ k.user_id = reply'.uid
           \/ reply'.token \in ConsumedTokens ]_vars

\* the provider answered 300 and the unverified user and its ticket remain
C6_Witness ==
  /\ MailDeliveryFailed(reply)
  /\ reply.mail.posted
  /\ reply.resp = err("MAIL_FAILED")
  /\ \E u \in users : u.id = reply.uid /\ u.email_verified = 0
  /\ \E k \in tickets : k.token = reply.token

\* ----------------------------------------------------------------------
\* C7: a Register whose email has no "@" or whose password has fewer than 8
\* characters returns INVALID_INPUT, changes neither table and sends no mail.
C7_InvalidInput ==
  [][ ( /\ reply'.op = "register"
        /\ \/ ~Contains(reply'.email, "@")
           \/ Len(reply'.password) < 8 ) =>
        /\ reply'.resp = err("INVALID_INPUT")
        /\ users' = users
        /\ tickets' = tickets
        /\ outbox' = outbox
        /\ nextUid' = nextUid ]_vars

\* a short password with a well-formed, unregistered email was refused
C7_Witness ==
  /\ reply.op = "register"
  /\ reply.resp = err("INVALID_INPUT")
  /\ Contains(reply.email, "@")
  /\ Len(reply.password) < 8
  /\ users # {}

\* ----------------------------------------------------------------------
LoginUnknownEmail ==
  /\ reply.op = "login"
  /\ ~\E u \in users : u.email = NormalizeEmail(reply.email)

LoginWrongPassword ==
  /\ reply.op = "login"
  /\ \E u \in users : /\ u.email = NormalizeEmail(reply.email)
                      /\ ~verify_pw(reply.password, u.password_hash)

\* C8: Login with an unknown email and Login with a registered email and a
\* wrong password return the same response, INVALID_CREDENTIALS, whatever the
\* user's verified flag; EMAIL_NOT_VERIFIED needs the matching password.
C8_SameInvalidCredentials ==
  /\ (LoginUnknownEmail \/ LoginWrongPassword) =>
        reply.resp = err("INVALID_CREDENTIALS")
  /\ (reply.op = "login" /\ reply.resp = err("EMAIL_NOT_VERIFIED")) =>
        LoginCorrectPassword

\* a wrong password for a user that is not verified yet
C8_Witness ==
  /\ LoginWrongPassword
  /\ LoginUser.email_verified = 0
  /\ reply.resp = err("INVALID_CREDENTIALS")

\* ----------------------------------------------------------------------
\* the header is absent or does not start with "Bearer " in any case
NotBearer(h) ==
  \/ ~h.present
  \/ Len(h.text) < 7
  \/ \E i \in 1..7 : LowerChar(h.text[i]) # BearerPrefix[i]

\* the credential is a token of the service's algorithm signed with its secret
ValidlySigned(cred) ==
  cred.kind = "jwt" /\ cred.alg = JWT_ALG /\ cred.key = JWT_SECRET

\* C9: Me returns AUTH_REQUIRED when the header is absent, is not a Bearer
\* header, or carries a token that is malformed, wrongly signed or past its
\* expiry; it returns identity data only for a validly signed token whose
\* expiry has not passed.
C9_AuthRequired ==
  reply.op = "me" =>
    LET h == reply.authorization IN
    /\ ( \/ NotBearer(h)
         \/ ~ValidlySigned(h.cred)
         \/ h.cred.payload.exp < now ) => reply.resp = err("AUTH_REQUIRED")
    /\ reply.resp.ok =>
         /\ ~NotBearer(h)
         /\ ValidlySigned(h.cred)
         /\ h.cred.payload.exp >= now
         /\ reply.resp.data.email = h.cred.payload.email

\* a token signed with the service's secret was refused after its expiry
C9_Witness ==
  /\ reply.op = "me"
  /\ ~NotBearer(reply.authorization)
  /\ ValidlySigned(reply.authorization.cred)
  /\ JWT_SECRET # ""
  /\ reply.authorization.cred.payload.exp < now
  /\ reply.resp = err("AUTH_REQUIRED")

\* ----------------------------------------------------------------------
\* C10: Me with a validly signed, unexpired token whose email_verified claim
\* is false returns EMAIL_NOT_VERIFIED.
C10_MeRequiresVerified ==
  ( /\ reply.op = "me"
    /\ reply.authorization.present
    /\ reply.authorization.text = <<"B", "e", "a", "r", "e", "r", " ">>
    /\ ValidlySigned(reply.authorization.cred)
    /\ reply.authorization.cred.payload.exp > now
    /\ ~reply.authorization.cred.payload.email_verified ) =>
  reply.resp = err("EMAIL_NOT_VERIFIED")

\* ----------------------------------------------------------------------
\* the latest step answered a Me request that presented the kept token
MeWithHeldToken ==
  /\ reply.op = "me"
  /\ held # NoHeld
  /\ reply.authorization = Header(<<"B", "e", "a", "r", "e", "r", " ">>, held.token)

\* C11: a session token issued by Login at time t expires at t + 86400 when
\* remember_me is false and at t + 2592000 when it is true; Me accepts the
\* token before that time and answers AUTH_REQUIRED after it.
C11_SessionExpiry ==
  /\ (reply.op = "login" /\ reply.resp.ok) =>
        reply.resp.data.access_token.payload.exp =
          now + (IF reply.remember_me THEN 2592000 ELSE 86400)
  /\ held # NoHeld =>
        held.token.payload.exp =
          held.issued_at + (IF held.remember_me THEN 2592000 ELSE 86400)
  /\ MeWithHeldToken =>
        /\ now < held.token.payload.exp => reply.resp.ok
        /\ now > held.token.payload.exp => reply.resp = err("AUTH_REQUIRED")

\* a remember-me token was refused one second after its thirtieth day
C11_Witness ==
  /\ MeWithHeldToken
  /\ held.remember_me
  /\ now = held.issued_at + 2592000 + 1
  /\ reply.resp = err("AUTH_REQUIRED")

\* ----------------------------------------------------------------------
\* user u registered with full success (its mail reached the client) and a
\* VerifyEmail with the issued token succeeded
FlowVerified(u) ==
  \E c \in consumed : c.user_id = u.id /\ c.token \in inbox

\* the token that the Me request answered by the step presented was returned
\* by a Login: the one just before it, or an earlier one that the client kept
PresentsLoginToken ==
  /\ reply'.op = "me"
  /\ \/ /\ reply.op = "login"
        /\ reply.resp.ok
        /\ reply'.authorization.cred = reply.resp.data.access_token
     \/ /\ held # NoHeld
        /\ reply'.authorization.cred = held.token

\* the first three legs of the flow, which C12 as stated and as amended share:
\* a VerifyEmail with a token not in the store returns INVALID_TOKEN and
\* changes nothing; a VerifyEmail with the mailed token, while the ticket is
\* stored and unexpired, succeeds and marks the owner verified; Me with the
\* unexpired token of a Login returns the stored email and email_verified.
FlowLegs ==
  /\ (reply'.op = "verify" /\ ~\E k \in tickets : k.token = reply'.token) =>
        /\ reply'.resp = err("INVALID_TOKEN")
        /\ users' = users
        /\ tickets' = tickets
  /\ \A k \in tickets :
        ( /\ reply'.op = "verify"
          /\ reply'.token = k.token
          /\ k.token \in inbox
          /\ k.expires_at >= now ) =>
        /\ reply'.resp.ok
        /\ \E u \in users' : u.id = k.user_id /\ u.email_verified = 1
        /\ k \notin tickets'
  /\ (PresentsLoginToken /\ reply'.authorization.cred.payload.exp > now) =>
        \E u \in users :
           /\ u.id = reply'.authorization.cred.payload.sub
           /\ u.email = Strip(Lower(u.email))
           /\ reply'.resp = ok([email |-> u.email, email_verified |-> TRUE])

\* the step answered a Login that named, in any spelling, the email of a user
\* that went through the flow, with that user's password
FlowLogin ==
  /\ reply'.op = "login"
  /\ \E u \in users : /\ FlowVerified(u)
                      /\ u.email = Strip(Lower(reply'.email))
                      /\ u.password_hash = hash_pw(reply'.password)

\* C12 as stated: in the flow register, verify with a wrong token, verify with
\* the issued token, login, me, the Login returns an access token.
C12_FlowReturnsToken ==
  [][ /\ FlowLegs
      /\ FlowLogin => HasAccessToken(reply'.resp) ]_vars

\* C12 (amended): as stated, with the Login returning an access token when
\* JWT_SECRET is set, and ending in the unhandled RuntimeError of make_jwt
\* when JWT_SECRET is unset.
C12_Flow ==
  [][ /\ FlowLegs
      /\ FlowLogin =>
           IF JWT_SECRET # ""
           THEN /\ HasAccessToken(reply'.resp)
                /\ reply'.resp.data.access_token.payload.email_verified
           ELSE reply'.resp = Unhandled("RuntimeError") ]_vars

\* the end of the flow: the client logged in under another spelling of its
\* email and Me returned the normalised email and email_verified = true
C12_Witness ==
  /\ MeWithHeldToken
  /\ reply.resp.ok
  /\ reply.resp.data.email_verified
  /\ \E u \in users : /\ FlowVerified(u)
                      /\ u.id = held.token.payload.sub
                      /\ reply.resp.data.email = u.email
                      /\ u.email = <<"a", "@", "b">>

\* ----------------------------------------------------------------------
\* the Register answered by the latest step reached the mail sender, and the
\* provider call failed: missing credentials, a status outside 200..299, or
\* a connection failure or timeout
MailCallFailed ==
  /\ reply.op = "register"
  /\ reply.token # 0
  /\ APP_BASE_URL # ""
  /\ \/ MailCredsMissing
     \/ reply.mail.posted /\ reply.mail.status = ConnectionError
     \/ reply.mail.posted /\ reply.mail.status \notin 200..299

\* C13: the mail sender returns a boolean for every outcome of the provider
\* call and lets no failure escape, so a Register whose mail call fails in
\* any of these ways returns MAIL_FAILED.
C13_MailFailureIsMailFailed ==
  MailCallFailed => reply.resp = err("MAIL_FAILED")

\* ----------------------------------------------------------------------
\* the nine error codes of the response envelope
ErrorCodes ==
  {"INVALID_INPUT", "EMAIL_EXISTS", "APP_BASE_URL_MISSING", "MAIL_FAILED",
   "INVALID_TOKEN", "TOKEN_EXPIRED", "INVALID_CREDENTIALS",
   "EMAIL_NOT_VERIFIED", "AUTH_REQUIRED"}

\* C14: under every configuration, every Register, VerifyEmail, Login and Me
\* request ends with an envelope that is a success payload or carries one of
\* the nine error codes; no request ends in an unhandled failure.
C14_EveryRequestEnveloped ==
  reply.op # "none" =>
    \/ reply.resp.ok
    \/ reply.resp.error_code \in ErrorCodes

\* ----------------------------------------------------------------------
\* the step commits the VerifyEmail of worker p, whose ticket is stored and
\* belongs to user uid
CommitsTicketOf(p, uid) ==
  /\ proc[p].pc = "commit"
  /\ proc'[p] = Idle
  /\ reply'.op = "verify"
  /\ reply'.resp.ok
  /\ \E k \in tickets : /\ k.token = proc[p].token
                        /\ k.user_id = uid
                        /\ k.expires_at = proc[p].row.expires_at

\* C15: email_verified is false when the user is created; it changes only
\* from false to true, and only in the commit of a VerifyEmail whose ticket
\* is stored and owned by that user; that step changes no other user; a
\* VerifyEmail reaches its commit only by passing the expiry test, with the
\* ticket unexpired at that moment.
C15_VerifiedFlag ==
  [][ /\ \A v \in users' :
           (~\E u \in users : u.id = v.id) => v.email_verified = 0
      /\ \A u \in users :
           \E v \in users' :
              /\ v.id = u.id
              /\ v.email_verified # u.email_verified =>
                   /\ u.email_verified = 0
                   /\ v.email_verified = 1
                   /\ \E p \in Procs : CommitsTicketOf(p, u.id)
                   /\ \A w \in users : w.id # u.id => w \in users'
      /\ \A p \in Procs :
           (proc'[p].pc = "commit" /\ proc[p].pc # "commit") =>
              /\ proc[p].pc = "check"
              /\ proc[p].row.expires_at >= now ]_vars

\* a VerifyEmail marked the owner of its ticket verified and the other user,
\* registered before it, is still unverified
C15_Witness ==
  /\ reply.op = "verify"
  /\ reply.resp.ok
  /\ ~reply.dup
  /\ \E u \in users : u.id = reply.row.user_id /\ u.email_verified = 1
  /\ \E w \in users : w.id # reply.row.user_id /\ w.email_verified = 0

\* ----------------------------------------------------------------------
\* the store's verified flag of the subject of a session token is true
SubjectVerified(token) ==
  \E u \in users : u.id = token.payload.sub /\ u.email_verified = 1

\* C16: every session token Login issues carries email_verified = true; in
\* the state of issuance and in every later state the stored flag of the
\* token's subject is true; and the email_verified that Me returns for such a
\* token equals the stored flag.
C16_SnapshotAgrees ==
  /\ (reply.op = "login" /\ reply.resp.ok) =>
        /\ reply.resp.data.access_token.payload.email_verified
        /\ SubjectVerified(reply.resp.data.access_token)
  /\ held # NoHeld =>
        /\ held.token.payload.email_verified
        /\ SubjectVerified(held.token)
  /\ (MeWithHeldToken /\ reply.resp.ok) =>
        reply.resp.data.email_verified = SubjectVerified(held.token)

\* days after its issuance, and after a second user registered, Me returned
\* the snapshot of a kept token
C16_Witness ==
  /\ MeWithHeldToken
  /\ reply.resp.ok
  /\ reply.resp.data.email_verified
  /\ now >= held.issued_at + DayTTL
  /\ \E w \in users : w.id # held.token.payload.sub /\ w.email_verified = 0

\* ----------------------------------------------------------------------
\* the step completed a Register with APP_BASE_URL_MISSING: its user stays
\* stored, its ticket stays stored unless a VerifyEmail consumed it, and the
\* request posted no mail
BaseUrlMissingEffect ==
  (reply'.op = "register" /\ reply'.resp = err("APP_BASE_URL_MISSING")) =>
     /\ users' = users
     /\ tickets' = tickets
     /\ \E u \in users' : /\ u.id = reply'.uid
                          /\ u.email = reply'.email
                          /\ reply'.email = Strip(Lower(reply'.email))
     /\ \/ \E k \in tickets' : k.token = reply'.token /\ k.user_id = reply'.uid
        \/ [token |-> reply'.token, user_id |-> reply'.uid] \in consumed'
     /\ reply'.mail = NotPosted
     /\ outbox' = outbox

\* the step completed a Register whose normalised email belongs to a user
\* whose own Register has returned; without a base URL that Register
\* returned APP_BASE_URL_MISSING
RegisterAfterBaseUrlMissing ==
  /\ APP_BASE_URL = ""
  /\ reply'.op = "register"
  /\ reply'.token = 0
  /\ \E u \in users :
        /\ u.email = Strip(Lower(reply'.email))
        /\ \A p \in Procs : proc[p].op = "register" => proc[p].uid # u.id

\* C17 as stated: a Register that returns APP_BASE_URL_MISSING has committed
\* its user and its ticket and sends no mail; a later Register with the same
\* normalised email returns EMAIL_EXISTS.
C17_BaseUrlMissing ==
  [][ /\ BaseUrlMissingEffect
      /\ RegisterAfterBaseUrlMissing =>
           reply'.resp = err("EMAIL_EXISTS") ]_vars

\* C17 (amended): as stated, with the later Register creating nothing and
\* returning EMAIL_EXISTS when its password has at least 8 characters, and
\* INVALID_INPUT, checked first, when it has fewer.
C17_BaseUrlMissingKeepsRecords ==
  [][ /\ BaseUrlMissingEffect
      /\ RegisterAfterBaseUrlMissing =>
           /\ users' = users
           /\ tickets' = tickets
           /\ outbox' = outbox
           /\ reply'.resp = IF Len(reply'.password) >= MinPwLen
                            THEN err("EMAIL_EXISTS")
                            ELSE err("INVALID_INPUT") ]_vars

\* without a base URL, a Register of an email whose first Register had ended
\* was refused; the first one's user and ticket are stored and no mail left
C17_Witness ==
  /\ APP_BASE_URL = ""
  /\ reply.op = "register"
  /\ reply.resp = err("EMAIL_EXISTS")
  /\ outbox = {}
  /\ \E u \in users :
        /\ u.email = NormalizeEmail(reply.email)
        /\ \A p \in Procs : proc[p].pc = "idle"
        /\ \E k \in tickets : k.user_id = u.id

\* ----------------------------------------------------------------------
\* the ticket of user u is stored and its expiry has passed
TicketExpired(u) ==
  \E k \in tickets : k.user_id = u.id /\ k.expires_at < now

\* the Register of user u has ended and its mail was never handed to the
\* provider: the service has no base URL or no mail credentials
NeverDelivered(u) ==
  /\ APP_BASE_URL = "" \/ MailCredsMissing
  /\ \A p \in Procs : proc[p].op = "register" => proc[p].uid # u.id

\* user u is unverified, its ticket has expired, and no VerifyEmail that
\* tested the ticket before its expiry is still to commit
Stuck(u) ==
  /\ u \in users
  /\ u.email_verified = 0
  /\ TicketExpired(u)
  /\ \A p \in Procs : proc[p].pc = "commit" => proc[p].row.user_id # u.id

\* the step answered a Login that named the email of user u
LoginOf(u) ==
  /\ reply'.op = "login"
  /\ u.email = Strip(Lower(reply'.email))

\* the step answered, at its INSERT INTO users or before it, a Register that
\* named the email of user u
RegisterOf(u) ==
  /\ reply'.op = "register"
  /\ reply'.token = 0
  /\ u.email = Strip(Lower(reply'.email))

\* C18 as stated: once the ticket of an unverified user has expired, or was
\* never delivered, no request makes the user verified or issues it a session
\* token, and every later Register with its email returns EMAIL_EXISTS.
C18_StaysPending ==
  [][ \A u \in users :
        (u.email_verified = 0 /\ (TicketExpired(u) \/ NeverDelivered(u))) =>
           /\ u \in users'
           /\ LoginOf(u) => ~HasAccessToken(reply'.resp)
           /\ RegisterOf(u) => reply'.resp = err("EMAIL_EXISTS") ]_vars

\* C18 (amended): while a user is unverified, with its ticket expired or
\* never delivered, no Login issues it a session token and a Register with
\* its email returns EMAIL_EXISTS (INVALID_INPUT when the password has fewer
\* than 8 characters); the user becomes verified only in the commit of a
\* VerifyEmail that presented its ticket and tested it before its expiry;
\* and once the ticket has expired with no such VerifyEmail still to commit,
\* the user stays unverified and every VerifyEmail with its ticket returns
\* TOKEN_EXPIRED, in every later state.
C18_StaysPendingOnceStuck ==
  [][ \A u \in users :
        (u.email_verified = 0 /\ (TicketExpired(u) \/ NeverDelivered(u))) =>
           /\ LoginOf(u) =>
                reply'.resp \in {err("INVALID_CREDENTIALS"),
                                 err("EMAIL_NOT_VERIFIED")}
           /\ RegisterOf(u) =>
                /\ users' = users
                /\ reply'.resp = IF Len(reply'.password) >= MinPwLen
                                 THEN err("EMAIL_EXISTS")
                                 ELSE err("INVALID_INPUT")
           /\ u \notin users' =>
                /\ ~Stuck(u)
                /\ \E p \in Procs : CommitsTicketOf(p, u.id)
           /\ Stuck(u) =>
                /\ Stuck(u)'
                /\ \A k \in tickets :
                     (k.user_id = u.id /\ reply'.op = "verify"
                                       /\ reply'.token = k.token) =>
                        reply'.resp = err("TOKEN_EXPIRED") ]_vars

\* after the expiry of its ticket, the user gave its password and Login
\* refused it as unverified
C18_Witness ==
  /\ reply.op = "login"
  /\ reply.resp = err("EMAIL_NOT_VERIFIED")
  /\ \E u \in users : /\ Stuck(u)
                      /\ u.email = NormalizeEmail(reply.email)
                      /\ u.password_hash = hash_pw(reply.password)

\* ----------------------------------------------------------------------
\* the ticket of user u was issued: its Register is past the INSERT INTO
\* email_verification_tokens
TicketIssued(u) ==
  \A p \in Procs : proc[p].pc = "insert_ticket" => proc[p].uid # u.id

\* C19: in every state of the store, a ticket that was issued and is no
\* longer in the ticket table was deleted by a VerifyEmail for its owner, and
\* the owner has email_verified = true.
C19_DeletedImpliesVerified ==
  /\ \A u \in users :
        (TicketIssued(u) /\ ~\E k \in tickets : k.user_id = u.id) =>
           u.email_verified = 1
  /\ \A t \in 1..nextTok :
        (~\E k \in tickets : k.token = t) =>
           \E c \in consumed, u \in users :
              c.token = t /\ u.id = c.user_id /\ u.email_verified = 1

\* the ticket of one user is gone and the user is verified, while the other
\* user still has its ticket and is unverified
C19_Witness ==
  \E u, w \in users :
     /\ u.id # w.id
     /\ TicketIssued(u)
     /\ ~\E k \in tickets : k.user_id = u.id
     /\ u.email_verified = 1
     /\ \E k \in tickets : k.user_id = w.id
     /\ w.email_verified = 0
====
